---- MODULE Spec2Model ----
(***************************************************************************)
(* c2g (src/index.js): one-way synchronisation of a Cybozu schedule export *)
(* into a Google calendar.  The model covers the CSV row normalisation     *)
(* (lines 162-215), the occurrence match (lines 106-123, 235-242,          *)
(* 259-266) and the insert / delete loops against the event store          *)
(* (lines 220-275).                                                        *)
(*                                                                         *)
(* Strings whose characters matter to the code (the date and time columns, *)
(* the "YYYY-MM-DD" values) are sequences of UTF-16 code units; an ISO     *)
(* date-time string is the pair of its wall-clock reading and its UTC      *)
(* offset.  Instants are seconds since 2023-12-31T00:00:00Z, so that local *)
(* midnight of 2024/1/d is d * DAY - TZ.                                   *)
(***************************************************************************)
EXTENDS Integers, Sequences, FiniteSets, TLC

VARIABLES
    csv,            \* parseCsv(csv): the rows of the export, header first
    store,          \* the destination calendar: sequence of stored events
    nextId,         \* next id the store hands out
    pc,             \* position of main
    newEvents,      \* const newEvents (line 162)
    oldEvents,      \* const oldEvents (line 220)
    i,              \* index of the for-of loop in progress (1-based)
    insertedCount,  \* line 231
    deletedCount,   \* line 255
    outstanding,    \* store calls awaiting their answer
    issued,         \* history: store calls of this run, in issue order
    created,        \* history: ids the store gave to this run's inserts
    runs,           \* number of runs started so far
    prevClean       \* history: the previous run completed, every call succeeding

vars == <<csv, store, nextId, pc, newEvents, oldEvents, i, insertedCount,
          deletedCount, outstanding, issued, created, runs, prevClean>>

----------------------------------------------------------------------------
(* Bounds of the model *)

MaxDay == 10        \* last day of January 2024 a row may name
MaxRows == 2        \* data rows of the export
MaxStored == 2      \* events in the destination before the first run
MaxRuns == 2        \* runs of the program over the same export

HOUR == 60 * 60
DAY == 24 * HOUR
TZ == 9 * HOUR      \* UTC offset of the host (Asia/Tokyo, no DST)

----------------------------------------------------------------------------
(* Strings as code units *)

Digit(n) == 48 + n                       \* "0".."9"
IsDigit(c) == c >= 48 /\ c <= 57
SlashPrefix == <<50, 48, 50, 52, 47, 49, 47>>            \* "2024/1/"
DashPrefix == <<50, 48, 50, 52, 45, 48, 49, 45>>         \* "2024-01-"
InvalidDateStr == <<73, 110, 118, 97, 108, 105, 100, 32, 100, 97, 116, 101>>
                                                         \* "Invalid date"
Garbage == <<110, 47, 97>>                               \* "n/a"
Unpadded(d) == IF d < 10 THEN <<Digit(d)>> ELSE <<Digit(d \div 10), Digit(d % 10)>>
Padded(d) == <<Digit(d \div 10), Digit(d % 10)>>
EmptyStr == <<>>
T1000 == <<49, 48, 58, 48, 48>>                          \* "10:00"
T235959 == <<50, 51, 58, 53, 57, 58, 53, 57>>            \* "23:59:59"

HasPrefix(p, s) == Len(s) >= Len(p) /\ SubSeq(s, 1, Len(p)) = p
Rest(p, s) == SubSeq(s, Len(p) + 1, Len(s))

\* JavaScript's > on two strings: lexicographic on code units.
RECURSIVE StrGT(_, _)
StrGT(a, b) ==
    IF a = <<>> THEN FALSE
    ELSE IF b = <<>> THEN TRUE
    ELSE IF Head(a) # Head(b) THEN Head(a) > Head(b)
    ELSE StrGT(Tail(a), Tail(b))

----------------------------------------------------------------------------
(* Date: new Date(string), getTime; moment *)

NaN == [ok |-> FALSE, t |-> 0]
Time(n) == [ok |-> TRUE, t |-> n]

\* day of the month written with one or two digits, 0 when it is none
DayOf(s) ==
    IF Len(s) = 1 /\ IsDigit(s[1]) THEN s[1] - 48
    ELSE IF Len(s) = 2 /\ IsDigit(s[1]) /\ IsDigit(s[2])
         THEN (s[1] - 48) * 10 + (s[2] - 48)
    ELSE 0

\* seconds of the day of "", "HH:MM" or "HH:MM:SS"; -1 when it is none
TwoDigits(s, k) == (s[k] - 48) * 10 + (s[k + 1] - 48)
ClockOf(s) ==
    IF s = <<>> THEN 0
    ELSE IF /\ Len(s) \in {5, 8}
            /\ \A k \in {1, 2, 4, 5} : IsDigit(s[k])
            /\ s[3] = 58
            /\ Len(s) = 8 => (s[6] = 58 /\ IsDigit(s[7]) /\ IsDigit(s[8]))
            /\ TwoDigits(s, 1) < 24 /\ TwoDigits(s, 4) < 60
            /\ Len(s) = 8 => TwoDigits(s, 7) < 60
         THEN TwoDigits(s, 1) * HOUR + TwoDigits(s, 4) * 60
              + (IF Len(s) = 8 THEN TwoDigits(s, 7) ELSE 0)
    ELSE -1

\* new Date(date + ' ' + time): a local time, Invalid Date when unparseable
NewDateLocal(date, time) ==
    IF /\ HasPrefix(SlashPrefix, date)
       /\ DayOf(Rest(SlashPrefix, date)) \in 1..31
       /\ ClockOf(time) >= 0
    THEN Time(DayOf(Rest(SlashPrefix, date)) * DAY + ClockOf(time) - TZ)
    ELSE NaN

\* new Date("YYYY-MM-DD"): midnight UTC of that day
NewDateYMD(s) ==
    IF /\ HasPrefix(DashPrefix, s)
       /\ Len(Rest(DashPrefix, s)) = 2
       /\ DayOf(Rest(DashPrefix, s)) \in 1..31
    THEN Time(DayOf(Rest(DashPrefix, s)) * DAY)
    ELSE NaN

\* new Date(<ISO 8601 string with offset>)
NewDateISO(iso) == Time(iso.wall - iso.off)

\* moment#format("YYYY-MM-DD"): the local calendar day
FormatYMD(m) ==
    IF m.ok THEN DashPrefix \o Padded((m.t + TZ) \div DAY) ELSE InvalidDateStr

\* moment#isSameOrAfter: false when either side is invalid
IsSameOrAfter(a, b) == a.ok /\ b.ok /\ a.t >= b.t

\* moment#clone().add(1, 'd')
AddDay(m) == IF m.ok THEN Time(m.t + DAY) ELSE m

----------------------------------------------------------------------------
(* Values of an event's start / end object *)

Undefined == [type |-> "undefined", str |-> <<>>, wall |-> 0, off |-> 0]
Null == [type |-> "null", str |-> <<>>, wall |-> 0, off |-> 0]
Str(s) == [type |-> "string", str |-> s, wall |-> 0, off |-> 0]
Iso(w, o) == [type |-> "iso", str |-> <<>>, wall |-> w, off |-> o]

\* moment#toISOString: UTC ("Z"), null for an invalid moment (it does not
\* throw, unlike Date#toISOString)
ToISOString(m) == IF m.ok THEN Iso(m.t, 0) ELSE Null

Truthy(v) == v.type = "iso" \/ (v.type = "string" /\ v.str # <<>>)

DateOnly(s) == [date |-> Str(s), dateTime |-> Undefined]
DateTime(v) == [date |-> Undefined, dateTime |-> v]

----------------------------------------------------------------------------
(* Row normalisation: the body of parseCsv(csv).forEach (lines 164-215) *)

\* line[0..6] and line[8] of one row; line[7] is never read
Row(sd, st, ed, et, cat, title) ==
    [startDate |-> sd, startTime |-> st, endDate |-> ed, endTime |-> et,
     category |-> cat, title |-> title, description |-> "memo", location |-> "HQ"]

\* lines 191-194
Summary(line) ==
    IF line.category # "" THEN "[" \o line.category \o "] " \o line.title
    ELSE line.title

\* lines 167-186: the four date / time strings after the same-day default
\* and the swap of a reversed range
Adjusted(line) ==
    IF line.startDate = line.endDate
    THEN [startDate |-> line.startDate, startTime |-> line.startTime,
          endDate |-> line.endDate,
          endTime |-> IF line.startTime # EmptyStr /\ line.endTime = EmptyStr
                      THEN T235959 ELSE line.endTime]
    ELSE IF StrGT(line.startDate, line.endDate)
    THEN [startDate |-> line.endDate, startTime |-> line.endTime,
          endDate |-> line.startDate, endTime |-> line.startTime]
    ELSE [startDate |-> line.startDate, startTime |-> line.startTime,
          endDate |-> line.endDate, endTime |-> line.endTime]

\* lines 188-211: the event pushed for one row.  Nothing in the body throws
\* for a row of strings (an unparseable date gives an invalid moment, whose
\* format is "Invalid date" and whose toISOString is null), so the catch of
\* line 212 is never entered and every row pushes an event.
NormalizeRow(line) ==
    LET a == Adjusted(line)
        startMoment == NewDateLocal(a.startDate, a.startTime)
        endMoment0 == NewDateLocal(a.endDate, a.endTime)
        allDay == a.startTime = EmptyStr /\ a.endTime = EmptyStr
        endMoment == IF allDay /\ IsSameOrAfter(startMoment, endMoment0)
                     THEN AddDay(startMoment) ELSE endMoment0
    IN  [start |-> IF allDay THEN DateOnly(FormatYMD(startMoment))
                   ELSE DateTime(ToISOString(startMoment)),
         end |-> IF allDay THEN DateOnly(FormatYMD(endMoment))
                 ELSE DateTime(ToISOString(endMoment)),
         location |-> line.location,
         summary |-> Summary(line),
         description |-> line.description]

\* lines 162-215: row 0 (the header) is skipped, every other row is normalised
ParsedEvents(rows) == [k \in 1..(Len(rows) - 1) |-> NormalizeRow(rows[k + 1])]

----------------------------------------------------------------------------
(* Occurrence match *)

\* check of line 109, on two "YYYY-MM-DD" strings
checkDate(d1, d2) ==
    LET a == NewDateYMD(d1.str)
        b == NewDateYMD(d2.str)
    IN  a.ok /\ b.ok /\ a.t = b.t

\* check of line 109, on two ISO date-time strings
checkDateTime(d1, d2) ==
    LET a == NewDateISO(d1)
        b == NewDateISO(d2)
    IN  a.t = b.t

\* one of the two if / else-if chains of isEqualDate
isEqualPoint(p1, p2) ==
    IF Truthy(p1.date) /\ Truthy(p2.date) /\ checkDate(p1.date, p2.date) THEN TRUE
    ELSE IF /\ Truthy(p1.dateTime) /\ Truthy(p2.dateTime)
            /\ checkDateTime(p1.dateTime, p2.dateTime) THEN TRUE
    ELSE FALSE

\* isEqualStart || isEqualEnd in place of line 122's &&
isEqualDateEither(t1, t2) ==
    isEqualPoint(t1.start, t2.start) \/ isEqualPoint(t1.end, t2.end)

isEqualDate(t1, t2) == isEqualPoint(t1.start, t2.start) /\ isEqualPoint(t1.end, t2.end)

\* (old, event) of both loops make isEqual true: lines 236-238, 260-262
OccurrenceMatch(old, event) == old.summary = event.summary /\ isEqualDate(old, event)

\* the insert loop's scan without the break of line 239: isEqual is what the
\* last candidate of equal summary left in it
ScanOldNoBreak(olds, event) ==
    LET same == {k \in 1..Len(olds) : olds[k].summary = event.summary}
    IN  same # {} /\ isEqualDate(olds[CHOOSE k \in same : \A m \in same : m <= k], event)

\* the inner for-of loop of the insert loop (lines 235-242): isEqual after it
ScanOld(olds, event) == \E k \in 1..Len(olds) : OccurrenceMatch(olds[k], event)

\* the inner for-of loop of the delete loop (lines 259-266): isEqual after it
ScanNew(news, old) == \E k \in 1..Len(news) : OccurrenceMatch(old, news[k])

----------------------------------------------------------------------------
(* The event store (Google Calendar behind node-google-calendar) *)

\* calendar.Events.insert: the stored event carries an id; the store gives
\* a date-time back in the calendar's zone (offset TZ), the same instant
StoredPoint(p) ==
    IF p.dateTime.type = "iso"
    THEN DateTime(Iso(p.dateTime.wall - p.dateTime.off + TZ, TZ))
    ELSE p
Stored(event, id) ==
    [id |-> id, start |-> StoredPoint(event.start), end |-> StoredPoint(event.end),
     location |-> event.location, summary |-> event.summary,
     description |-> event.description]

\* calendar.Events.delete
Without(s, id) == SelectSeq(s, LAMBDA e : e.id # id)

----------------------------------------------------------------------------
(* Inputs *)

Days == 9..MaxDay
\* the two date columns of a row: both as "2024/1/9", both as "2024/1/09",
\* or one of them unreadable
DatePairs ==
    {<<SlashPrefix \o Unpadded(d), SlashPrefix \o Unpadded(e)>> : d \in Days, e \in Days}
        \cup {<<SlashPrefix \o Padded(d), SlashPrefix \o Padded(e)>> : d \in Days, e \in Days}
        \cup {<<Garbage, SlashPrefix \o Unpadded(d)>> : d \in Days}
        \cup {<<SlashPrefix \o Unpadded(d), Garbage>> : d \in Days}
        \cup {<<Garbage, Garbage>>}
TimeStrings == {EmptyStr, T1000}
Rows ==
    {Row(dp[1], st, dp[2], et, cat, title) :
        dp \in DatePairs, st \in TimeStrings, et \in TimeStrings,
        cat \in {"", "MTG"}, title \in {"A", "B"}}
Header == Row(Garbage, Garbage, Garbage, Garbage, "category", "title")

\* rows of the runs against the store: one day, with or without a start
\* time, parseable or not
RunRows ==
    {Row(SlashPrefix \o Unpadded(9), st, SlashPrefix \o Unpadded(9), EmptyStr, "", "A") :
        st \in TimeStrings}
        \cup {Row(SlashPrefix \o Unpadded(9), EmptyStr, SlashPrefix \o Unpadded(9), EmptyStr, "", "B")}
        \cup {Row(Garbage, st, Garbage, EmptyStr, "", "A") : st \in TimeStrings}

SeqsUpTo(S, n) == UNION {[1..k -> S] : k \in 0..n}

\* events the destination may hold before the first run, as the store lists
\* them: what an earlier run stored, and events of other origin
Held(summary, start, end) ==
    [start |-> start, end |-> end, location |-> "", summary |-> summary,
     description |-> "edited"]
AllDay(d) == DateOnly(DashPrefix \o Padded(d))
At(t) == DateTime(Iso(t + TZ, TZ))
Pool ==
    << Held("A", AllDay(9), AllDay(10)),
       Held("A", At(9 * DAY + 10 * HOUR - TZ), At(9 * DAY + DAY - 1 - TZ)),
       Held("A", At(9 * DAY), At(10 * DAY)),
       Held("A", At(9 * DAY + 10 * HOUR - TZ), At(9 * DAY + 11 * HOUR - TZ)),
       Held("A", AllDay(9), AllDay(11)),
       Held("C", AllDay(9), AllDay(10)) >>

RECURSIVE Pick(_, _)
\* the events of Pool at the indices of S, in Pool's order
Pick(S, k) ==
    IF k > Len(Pool) THEN <<>>
    ELSE IF k \in S THEN <<Pool[k]>> \o Pick(S, k + 1)
    ELSE Pick(S, k + 1)
WithIds(s) == [k \in 1..Len(s) |-> Stored(s[k], k)]
Stores ==
    {WithIds(Pick(S, 1)) :
        S \in {T \in SUBSET (1..Len(Pool)) : Cardinality(T) <= MaxStored}}

----------------------------------------------------------------------------
(* main (lines 126-276) *)

\* calendar.Events.insert(calendarId, event) of line 245
InsertCall(k) == [op |-> "insert", idx |-> k, id |-> 0]

\* line 269 with the id of the listing's first event for every delete
DeleteCallFirst(olds, k) == [op |-> "delete", idx |-> k, id |-> olds[1].id]

\* calendar.Events.delete(calendarId, old.id, ...) of line 269
DeleteCall(olds, k) == [op |-> "delete", idx |-> k, id |-> olds[k].id]

\* lines 245, 269 without their await
NeverSuspended(calls) == FALSE

\* await (lines 245, 269): main is suspended while a store call is outstanding
Suspended(calls) == calls # <<>>

Init ==
    /\ csv \in {<<Header>> \o s : s \in SeqsUpTo(RunRows, MaxRows)}
    /\ store \in Stores
    /\ nextId = Len(store) + 1
    /\ pc = "parse"
    /\ runs = 1
    /\ prevClean = FALSE
    /\ newEvents = <<>>
    /\ oldEvents = <<>>
    /\ i = 0
    /\ insertedCount = 0
    /\ deletedCount = 0
    /\ outstanding = <<>>
    /\ issued = <<>>
    /\ created = {}

\* lines 162-215
ParseCsv ==
    /\ pc = "parse"
    /\ newEvents' = ParsedEvents(csv)
    /\ pc' = "list"
    /\ UNCHANGED <<csv, store, nextId, oldEvents, i, insertedCount, deletedCount,
                   outstanding, issued, created, runs, prevClean>>

\* lines 220-231: every stored event lies in the listed window
ListEvents ==
    /\ pc = "list"
    /\ oldEvents' = store
    /\ insertedCount' = 0
    /\ i' = 1
    /\ pc' = "insert"
    /\ UNCHANGED <<csv, store, nextId, newEvents, deletedCount, outstanding,
                   issued, created, runs, prevClean>>

\* line 220: the listing failed; the rejection leaves main before any insert
\* or delete is computed
ListRejected ==
    /\ pc = "list"
    /\ pc' = "failed"
    /\ UNCHANGED <<csv, store, nextId, newEvents, oldEvents, i, insertedCount,
                   deletedCount, outstanding, issued, created, runs, prevClean>>

\* lines 232-245: one iteration of the insert loop, up to its await
InsertNext ==
    /\ pc = "insert"
    /\ ~Suspended(outstanding)
    /\ i <= Len(newEvents)
    /\ IF ScanOld(oldEvents, newEvents[i])
       THEN /\ i' = i + 1
            /\ UNCHANGED <<outstanding, issued>>
       ELSE /\ outstanding' = Append(outstanding, InsertCall(i))
            /\ issued' = Append(issued, InsertCall(i))
            /\ UNCHANGED i
    /\ UNCHANGED <<csv, store, nextId, pc, newEvents, oldEvents, insertedCount,
                   deletedCount, created, runs, prevClean>>

\* lines 245-249: the insert succeeded
InsertResolved ==
    /\ pc = "insert"
    /\ outstanding # <<>>
    /\ store' = Append(store, Stored(newEvents[Head(outstanding).idx], nextId))
    /\ created' = created \cup {nextId}
    /\ nextId' = nextId + 1
    /\ outstanding' = Tail(outstanding)
    /\ insertedCount' = insertedCount + 1
    /\ i' = i + 1
    /\ UNCHANGED <<csv, pc, newEvents, oldEvents, deletedCount, issued, runs,
                   prevClean>>

\* line 245: the insert failed; the rejection leaves the async function of
\* line 126, which has no handler, and nothing after the call runs
InsertRejected ==
    /\ pc = "insert"
    /\ outstanding # <<>>
    /\ outstanding' = Tail(outstanding)
    /\ pc' = "aborted"
    /\ UNCHANGED <<csv, store, nextId, newEvents, oldEvents, i, insertedCount,
                   deletedCount, issued, created, runs, prevClean>>

\* lines 250-255: the insert loop is over
InsertDone ==
    /\ pc = "insert"
    /\ ~Suspended(outstanding)
    /\ i > Len(newEvents)
    /\ deletedCount' = 0
    /\ i' = 1
    /\ pc' = "delete"
    /\ UNCHANGED <<csv, store, nextId, newEvents, oldEvents, insertedCount,
                   outstanding, issued, created, runs, prevClean>>

\* lines 256-269: one iteration of the delete loop, up to its await
DeleteNext ==
    /\ pc = "delete"
    /\ ~Suspended(outstanding)
    /\ i <= Len(oldEvents)
    /\ IF ScanNew(newEvents, oldEvents[i])
       THEN /\ i' = i + 1
            /\ UNCHANGED <<outstanding, issued>>
       ELSE /\ outstanding' = Append(outstanding, DeleteCall(oldEvents, i))
            /\ issued' = Append(issued, DeleteCall(oldEvents, i))
            /\ UNCHANGED i
    /\ UNCHANGED <<csv, store, nextId, pc, newEvents, oldEvents, insertedCount,
                   deletedCount, created, runs, prevClean>>

\* lines 269-273: the delete succeeded
DeleteResolved ==
    /\ pc = "delete"
    /\ outstanding # <<>>
    /\ store' = Without(store, Head(outstanding).id)
    /\ outstanding' = Tail(outstanding)
    /\ deletedCount' = deletedCount + 1
    /\ i' = i + 1
    /\ UNCHANGED <<csv, nextId, pc, newEvents, oldEvents, insertedCount, issued,
                   created, runs, prevClean>>

\* line 269: the delete failed; as for a failed insert
DeleteRejected ==
    /\ pc = "delete"
    /\ outstanding # <<>>
    /\ outstanding' = Tail(outstanding)
    /\ pc' = "aborted"
    /\ UNCHANGED <<csv, store, nextId, newEvents, oldEvents, i, insertedCount,
                   deletedCount, issued, created, runs, prevClean>>

\* line 275: the delete loop is over and main returns
DeleteDone ==
    /\ pc = "delete"
    /\ ~Suspended(outstanding)
    /\ i > Len(oldEvents)
    /\ pc' = "done"
    /\ UNCHANGED <<csv, store, nextId, newEvents, oldEvents, i, insertedCount,
                   deletedCount, outstanding, issued, created, runs, prevClean>>

\* the program is started again on the same export
Rerun ==
    /\ pc \in {"done", "aborted", "failed"}
    /\ runs < MaxRuns
    /\ runs' = runs + 1
    /\ prevClean' = (pc = "done")
    /\ pc' = "parse"
    /\ newEvents' = <<>>
    /\ oldEvents' = <<>>
    /\ i' = 0
    /\ insertedCount' = 0
    /\ deletedCount' = 0
    /\ outstanding' = <<>>
    /\ issued' = <<>>
    /\ created' = {}
    /\ UNCHANGED <<csv, store, nextId>>

Next ==
    \/ ParseCsv
    \/ ListEvents
    \/ ListRejected
    \/ InsertNext
    \/ InsertResolved
    \/ InsertRejected
    \/ InsertDone
    \/ DeleteNext
    \/ DeleteResolved
    \/ DeleteRejected
    \/ DeleteDone

\* one run of the program
Spec == Init /\ [][Next]_vars

\* the program run again and again over the same export
NextRerun == Next \/ Rerun

SpecRerun == Init /\ [][NextRerun]_vars

----------------------------------------------------------------------------
(* The normaliser alone, over every row of Rows *)

InitNorm ==
    /\ csv \in {<<Header>> \o s : s \in SeqsUpTo(Rows, MaxRows) \ {<<>>}}
    /\ store = <<>>
    /\ nextId = 1
    /\ pc = "parse"
    /\ runs = 1
    /\ prevClean = FALSE
    /\ newEvents = <<>>
    /\ oldEvents = <<>>
    /\ i = 0
    /\ insertedCount = 0
    /\ deletedCount = 0
    /\ outstanding = <<>>
    /\ issued = <<>>
    /\ created = {}

NextNorm == ParseCsv

SpecNorm == InitNorm /\ [][NextNorm]_vars

----------------------------------------------------------------------------
(* Vocabulary of the properties *)

\* indices of the source (insert) or of the listing (delete) this run has
\* submitted to the store
IdxOf(op) == {issued[n].idx : n \in {m \in DOMAIN issued : issued[m].op = op}}
DeleteIds == {issued[n].id : n \in {m \in DOMAIN issued : issued[m].op = "delete"}}
OldIds == {oldEvents[k].id : k \in DOMAIN oldEvents}

\* source events no listed event matches, listed events no source event matches
UnmatchedNew ==
    {k \in DOMAIN newEvents :
        \A j \in DOMAIN oldEvents : ~OccurrenceMatch(oldEvents[j], newEvents[k])}
UnmatchedOld ==
    {j \in DOMAIN oldEvents :
        \A k \in DOMAIN newEvents : ~OccurrenceMatch(oldEvents[j], newEvents[k])}

\* what a start / end object denotes: a calendar day, an instant, or nothing
Denotes(p) ==
    IF p.date.type = "string" /\ NewDateYMD(p.date.str).ok
    THEN [kind |-> "date", at |-> DayOf(Rest(DashPrefix, p.date.str))]
    ELSE IF p.date.type = "undefined" /\ p.dateTime.type = "iso"
    THEN [kind |-> "instant", at |-> p.dateTime.wall - p.dateTime.off]
    ELSE [kind |-> "none", at |-> 0]
SamePoint(p, q) == Denotes(p).kind # "none" /\ Denotes(p) = Denotes(q)

\* seconds since the epoch of what a start / end object denotes
Seconds(p) == IF Denotes(p).kind = "date" THEN Denotes(p).at * DAY ELSE Denotes(p).at

\* day of the month a date column names, 0 when new Date cannot read it
RowDay(s) == IF HasPrefix(SlashPrefix, s) THEN DayOf(Rest(SlashPrefix, s)) ELSE 0
DatesParse(line) == RowDay(line.startDate) \in 1..31 /\ RowDay(line.endDate) \in 1..31
Parseable(line) ==
    /\ NewDateLocal(Adjusted(line).startDate, Adjusted(line).startTime).ok
    /\ NewDateLocal(Adjusted(line).endDate, Adjusted(line).endTime).ok

Min(a, b) == IF a <= b THEN a ELSE b

----------------------------------------------------------------------------
(* Properties *)

\* C1: a run submits for insert only source events that no listed event
\* occurrence-matches and for delete only listed events that no source event
\* occurrence-matches; a run that completes has submitted exactly those, has
\* counted them, and leaves the store holding the listed events minus the
\* unmatched ones plus one new event per unmatched source event.
C1_Reconcile ==
    /\ IdxOf("insert") \subseteq UnmatchedNew
    /\ IdxOf("delete") \subseteq UnmatchedOld
    /\ pc = "done" =>
        /\ IdxOf("insert") = UnmatchedNew
        /\ IdxOf("delete") = UnmatchedOld
        /\ insertedCount = Cardinality(UnmatchedNew)
        /\ deletedCount = Cardinality(UnmatchedOld)
        /\ Cardinality(created) = Cardinality(UnmatchedNew)
        /\ {store[k].id : k \in DOMAIN store}
              = (OldIds \ {oldEvents[j].id : j \in UnmatchedOld}) \cup created

\* source {A, B} against destination {B, C}: one insert, one delete, done
C1_Witness ==
    /\ pc = "done"
    /\ Len(newEvents) = 2 /\ Len(oldEvents) = 2
    /\ Cardinality(IdxOf("insert")) = 1
    /\ Cardinality(IdxOf("delete")) = 1

\* C2: when a run that listed the destination has ended, with or without a
\* failed insert or delete, every unmatched source event has been submitted
\* for insert and every unmatched listed event for delete.
C2_ContinuesAfterFailure ==
    pc \in {"done", "aborted"} =>
        /\ IdxOf("insert") = UnmatchedNew
        /\ IdxOf("delete") = UnmatchedOld

\* C3: the events of a parsed export are those of its rows whose start and
\* end parse, in order, each as the row gives it on its own; a row whose
\* start or end does not parse gives none.
C3_BadRowsDropped ==
    pc = "list" =>
        LET good == SelectSeq(Tail(csv), Parseable)
        IN  newEvents = [k \in 1..Len(good) |-> NormalizeRow(good[k])]

\* C4: a run that follows a run which completed with every store call
\* succeeding submits no insert and no delete.
C4_RerunIdle == prevClean => issued = <<>>

\* C5: a listed event and a source event occurrence-match exactly when their
\* summaries are equal and their starts denote the same day or the same
\* instant and so do their ends, a day and an instant never being the same;
\* changing description or location on either side changes nothing.
C5_MatchIff ==
    \A j \in DOMAIN oldEvents, k \in DOMAIN newEvents :
        LET o == oldEvents[j]
            e == newEvents[k]
        IN  /\ OccurrenceMatch(o, e)
                <=> /\ o.summary = e.summary
                    /\ SamePoint(o.start, e.start)
                    /\ SamePoint(o.end, e.end)
            /\ \A d \in {"", "other"} :
                /\ OccurrenceMatch([o EXCEPT !.description = d, !.location = d], e)
                      = OccurrenceMatch(o, e)
                /\ OccurrenceMatch(o, [e EXCEPT !.description = d, !.location = d])
                      = OccurrenceMatch(o, e)

\* a matched pair whose descriptions differ, and an all-day event facing a
\* timed event of equal summary whose start and end fall on the same seconds
C5_Witness ==
    /\ \E j \in DOMAIN oldEvents, k \in DOMAIN newEvents :
        /\ OccurrenceMatch(oldEvents[j], newEvents[k])
        /\ oldEvents[j].description # newEvents[k].description
    /\ \E j \in DOMAIN oldEvents, k \in DOMAIN newEvents :
        /\ oldEvents[j].summary = newEvents[k].summary
        /\ Denotes(oldEvents[j].start).kind = "instant"
        /\ Denotes(newEvents[k].start).kind = "date"
        /\ Seconds(oldEvents[j].start) = Seconds(newEvents[k].start)
        /\ Seconds(oldEvents[j].end) = Seconds(newEvents[k].end)
        /\ ~OccurrenceMatch(oldEvents[j], newEvents[k])

\* C6: for a row with both times empty (and dates that parse), the event's
\* end date is strictly after its start date, is the day after it when the
\* row's two dates are the same day, and its start date is the earlier of
\* the row's two dates.
C6_AllDaySpan ==
    pc = "list" =>
        \A k \in DOMAIN newEvents :
            LET line == csv[k + 1]
                e == newEvents[k]
            IN  (/\ line.startTime = EmptyStr
                 /\ line.endTime = EmptyStr
                 /\ DatesParse(line)) =>
                    /\ Denotes(e.start).kind = "date"
                    /\ Denotes(e.end).kind = "date"
                    /\ Denotes(e.end).at > Denotes(e.start).at
                    /\ RowDay(line.startDate) = RowDay(line.endDate)
                          => Denotes(e.end).at = Denotes(e.start).at + 1
                    /\ Denotes(e.start).at
                          = Min(RowDay(line.startDate), RowDay(line.endDate))

\* C7: for a row with startDate > endDate (and dates that parse), each date
\* moves with its time and the event's start is not after its end.
C7_SwapOrdered ==
    pc = "list" =>
        \A k \in DOMAIN newEvents :
            LET line == csv[k + 1]
                e == newEvents[k]
            IN  (StrGT(line.startDate, line.endDate) /\ DatesParse(line)) =>
                    /\ Adjusted(line).startDate = line.endDate
                    /\ Adjusted(line).startTime = line.endTime
                    /\ Adjusted(line).endDate = line.startDate
                    /\ Adjusted(line).endTime = line.startTime
                    /\ Denotes(e.start).kind # "none"
                    /\ Denotes(e.end).kind # "none"
                    /\ Seconds(e.start) <= Seconds(e.end)

\* C8: every event of a parsed export occurrence-matches itself, and so does
\* the copy of it the store holds once it is inserted.
C8_Reflexive ==
    pc = "list" =>
        \A k \in DOMAIN newEvents :
            /\ OccurrenceMatch(newEvents[k], newEvents[k])
            /\ OccurrenceMatch(Stored(newEvents[k], 1), newEvents[k])

\* C9: at most one store call is outstanding, the inserts of a run are
\* submitted in the order of the source list and its deletes in the order of
\* the listing.
C9_Sequential ==
    /\ Len(outstanding) <= 1
    /\ \A m, n \in DOMAIN issued :
        (m < n /\ issued[m].op = issued[n].op) => issued[m].idx < issued[n].idx

\* two inserts and two deletes submitted, the last one outstanding
C9_Witness ==
    /\ Len(outstanding) = 1
    /\ Cardinality(IdxOf("insert")) = 2
    /\ Cardinality(IdxOf("delete")) = 2

\* C10: once a delete is submitted every insert of the run has been submitted
\* and answered and none follows; a delete names an event of the listing, no
\* two deletes name the same one, the listing holds no event this run
\* created, and no delete names one.
C10_DeleteAfterInserts ==
    /\ \A m, n \in DOMAIN issued :
        (m < n /\ issued[m].op = "delete") => issued[n].op = "delete"
    /\ IdxOf("delete") # {} =>
        /\ pc \in {"delete", "done", "aborted"}
        /\ IdxOf("insert") = UnmatchedNew
        /\ Cardinality(created) = Cardinality(UnmatchedNew)
    /\ DeleteIds \subseteq OldIds
    /\ Cardinality(DeleteIds) = Cardinality(IdxOf("delete"))
    /\ created \cap OldIds = {}
    /\ created \cap DeleteIds = {}

\* a completed run that inserted an event and deleted two
C10_Witness ==
    /\ pc = "done"
    /\ created # {}
    /\ Cardinality(DeleteIds) = 2

====
